---- MODULE Spec2Model ----
(***************************************************************************)
(* Stack-based algorithms of the EstructuraDatos corpus:                   *)
(*   - evaluar_postfija      (src/TareaEjercicio.py, Ejercicio 18)         *)
(*   - infijaAPostfija       (src/TareaEjercicio.py, Ejercicio 19)         *)
(*   - class Pila            (src/TareaEjercicio.py, Ejercicio 14, and     *)
(*                            src/Ejemplo2.py)                             *)
(*   - class CuentaBancaria  (src/tad_cuenta_bancaria.py)                  *)
(* Python floats are modelled by exact rationals <<num, den>> in lowest    *)
(* terms with den > 0; a Python string of space separated tokens is        *)
(* modelled by a sequence whose elements are tokens and " " separators.    *)
(* The amounts of CuentaBancaria are whole numbers of currency units: the  *)
(* rounding of floats, infinities and NaN are outside the model.           *)
(***************************************************************************)
EXTENDS Integers, Sequences, FiniteSets, TLC

VARIABLES
    expresion,  \* evaluar_postfija: the argument (a string)
    tokens,     \* evaluar_postfija: expresion.split()
    i,          \* evaluar_postfija: index of the next token of the for loop
    pila,       \* evaluar_postfija: the operand stack (a Python list)
    epc,        \* evaluar_postfija: position ("idle", "call", "loop", "done")
    eret,       \* evaluar_postfija: how the call ended
    infija,     \* infijaAPostfija: the argument (a string)
    ctokens,    \* infijaAPostfija: tokenizar(expresion)
    k,          \* infijaAPostfija: index of the next token of the Para loop
    salida,     \* infijaAPostfija: the output list
    pilaOp,     \* infijaAPostfija: the elements of the operator Pila
    cpc,        \* infijaAPostfija: position ("idle", "call", "para", "done")
    cret,       \* infijaAPostfija: how the call ended
    p14,        \* a Pila of Ejercicio 14: its _elementos
    p2,         \* a Pila of Ejemplo2.py: its _elementos
    llamada,    \* the last call on p14 or p2, with the stack before it
    cuentas,    \* the CuentaBancaria objects: their private fields
    ultima,     \* the last call on a CuentaBancaria and how it ended
    elementos,  \* a PilaMinimo: its _elementos
    minimos,    \* a PilaMinimo: its _minimos
    llamadaMin, \* the last call on the PilaMinimo, with _elementos before it
    vexpresion, \* validar_parentesis: the argument (a sequence of characters)
    vi,         \* validar_parentesis: index of the next character of the loop
    vpila,      \* validar_parentesis: the list pila
    vret,       \* validar_parentesis: <<>> while running, <<b>> once b returned
    otro,       \* a second call of evaluar_postfija: its frame while the
                \* thread that runs it is switched out
    hilo        \* the thread that is running (1 or 2)

evars == <<expresion, tokens, i, pila, epc, eret>>

cvars == <<infija, ctokens, k, salida, pilaOp, cpc, cret>>

pvars == <<p14, p2, llamada>>

bvars == <<cuentas, ultima>>

mvars == <<elementos, minimos, llamadaMin>>

vvars == <<vexpresion, vi, vpila, vret>>

dvars == <<otro, hilo>>

vars == <<expresion, tokens, i, pila, epc, eret,
          infija, ctokens, k, salida, pilaOp, cpc, cret,
          p14, p2, llamada,
          cuentas, ultima,
          elementos, minimos, llamadaMin,
          vexpresion, vi, vpila, vret,
          otro, hilo>>

\* what the steps of each program leave alone
noEval == <<cvars, pvars, bvars, mvars, vvars, dvars>>
noConv == <<evars, pvars, bvars, mvars, vvars, dvars>>
noPila == <<evars, cvars, bvars, mvars, vvars, dvars>>
noBanco == <<evars, cvars, pvars, mvars, vvars, dvars>>
noMin == <<evars, cvars, pvars, bvars, vvars, dvars>>
noVal == <<evars, cvars, pvars, bvars, mvars, dvars>>
noDos == <<cvars, pvars, bvars, mvars, vvars>>

----------------------------------------------------------------------------
(* Bounds of the model *)

\* number literals are "0" .. MaxNum
MaxNum == 1
\* postfix inputs: every token sequence of at most MaxJunkLen tokens ...
MaxJunkLen == 4
\* ... and every well-formed postfix expression with at most MaxOps operators
MaxOps == 2
\* infix inputs: every token sequence of at most MaxJunkLen tokens and every
\* valid infix expression with at most MaxInfixSize operators and pairs of
\* parentheses together
MaxInfixSize == 3
\* a Pila holds at most MaxPila elements
MaxPila == 3
\* the historiales of all accounts together hold at most MaxMovs entries
\* besides the APERTURA ones
MaxMovs == 3
\* the elements pushed on a PilaMinimo are the numbers 1 .. MaxValor
MaxValor == 3
\* the arguments of validar_parentesis have at most MaxChars characters
MaxChars == 6
\* the ')' loop run on an empty Pila of Ejemplo2.py is followed for at most
\* MaxNone passes
MaxNone == 2

\* most tokens in the expression of the first of two concurrent calls
MaxDosLen == 3

----------------------------------------------------------------------------
(* Tokens and strings *)

NumLit == <<"0", "1", "2", "3", "4", "5", "6", "7", "8", "9">>

NumTokens == {NumLit[n + 1] : n \in 0..MaxNum}

OpTokens == {"+", "-", "*", "/"}

ParenTokens == {"(", ")"}

\* a token that is neither a number nor an operator nor a parenthesis
JunkTokens == {"x"}

RECURSIVE SeqsOfLen(_, _)
SeqsOfLen(S, n) ==
    IF n = 0 THEN {<<>>}
    ELSE {Append(s, x) : s \in SeqsOfLen(S, n - 1), x \in S}

SeqsUpTo(S, n) == UNION {SeqsOfLen(S, m) : m \in 0..n}

\* " ".join(lista)
RECURSIVE Unir(_)
Unir(lista) ==
    IF Len(lista) = 0 THEN <<>>
    ELSE IF Len(lista) = 1 THEN lista
    ELSE <<Head(lista), " ">> \o Unir(Tail(lista))

\* cadena.split(): the separators are dropped, the tokens kept in order
RECURSIVE Split(_)
Split(cadena) ==
    IF Len(cadena) = 0 THEN <<>>
    ELSE IF Head(cadena) = " " THEN Split(Tail(cadena))
    ELSE <<Head(cadena)>> \o Split(Tail(cadena))

----------------------------------------------------------------------------
(* Floats as exact rationals *)

Abs(n) == IF n < 0 THEN -n ELSE n

RECURSIVE GCD(_, _)
GCD(a, b) == IF b = 0 THEN a ELSE GCD(b, a % b)

\* lowest terms, positive denominator (d # 0)
Norm(n, d) ==
    LET s == IF d < 0 THEN -1 ELSE 1
        g == GCD(Abs(n), Abs(d))
    IN  <<s * ((Abs(n) \div g) * (IF n < 0 THEN -1 ELSE 1)), Abs(d) \div g>>

Zero == <<0, 1>>

RAdd(a, b) == Norm(a[1] * b[2] + b[1] * a[2], a[2] * b[2])
RSub(a, b) == Norm(a[1] * b[2] - b[1] * a[2], a[2] * b[2])
RMul(a, b) == Norm(a[1] * b[1], a[2] * b[2])
RDiv(a, b) == Norm(a[1] * b[2], a[2] * b[1])

\* float(token): succeeds on a number literal, raises ValueError otherwise
FloatOk(token) == \E n \in 0..(Len(NumLit) - 1) : NumLit[n + 1] = token

Float(token) == <<CHOOSE n \in 0..(Len(NumLit) - 1) : NumLit[n + 1] = token, 1>>

----------------------------------------------------------------------------
(* evaluar_postfija *)

\* the keys of the dict operadores
operadores == {"+", "-", "*", "/"}

\* operadores[token](a, b); a / b raises ZeroDivisionError when b == 0
AplicaRaises(token, a, b) == token = "/" /\ b = Zero

\* the operands taken in the order they were popped
AplicaInvertida(token, a, b) ==
    CASE token = "+" -> RAdd(b, a)
      [] token = "-" -> RSub(b, a)
      [] token = "*" -> RMul(b, a)
      [] token = "/" -> IF a = Zero THEN Zero ELSE RDiv(b, a)

Aplica(token, a, b) ==
    CASE token = "+" -> RAdd(a, b)
      [] token = "-" -> RSub(a, b)
      [] token = "*" -> RMul(a, b)
      [] token = "/" -> RDiv(a, b)

\* outcomes of a call (args: what the message of the exception names)
Running == [kind |-> "running", exc |-> "", val |-> Zero, args |-> <<>>]
Return(v) == [kind |-> "return", exc |-> "", val |-> v, args |-> <<>>]
Raise(e) == [kind |-> "raise", exc |-> e, val |-> Zero, args |-> <<>>]
\* float(token) raises ValueError("could not convert string to float: 'token'")
RaiseFloat(token) == [Raise("ValueError") EXCEPT !.args = <<token>>]

\* the frame of one call of evaluar_postfija: its argument and its locals
Marco(e, t, j, p, pc, r) ==
    [expresion |-> e, tokens |-> t, i |-> j, pila |-> p, epc |-> pc, eret |-> r]

\* no second call
NoMarco == Marco(<<>>, <<>>, 1, <<>>, "idle", Running)

\* outcomes of a call of infijaAPostfija (val is the returned string)
CRunning == [kind |-> "running", exc |-> "", val |-> <<>>]
CReturn(v) == [kind |-> "return", exc |-> "", val |-> v]
CRaise(e) == [kind |-> "raise", exc |-> e, val |-> <<>>]

\* a call: the object, the method, the elements before the call and the
\* outcome (val: an element or "None"; num: an int; bool: a boolean)
Call(obj, op, antes, kind, val, num, bool) ==
    [obj |-> obj, op |-> op, antes |-> antes, kind |-> kind,
     val |-> val, num |-> num, bool |-> bool]

NoCall == Call("", "", <<>>, "", "None", 0, FALSE)

\* the names the program binds to CuentaBancaria objects
Cuentas == {"c1", "c2"}

\* a name not yet bound to an object
NoCuenta ==
    [creada |-> FALSE, titular |-> "", numero |-> "", saldo |-> 0,
     activa |-> FALSE, historial |-> <<>>]

SinCuentas == [c \in Cuentas |-> NoCuenta]

\* a call on the object named cta: the method, its arguments, the exception
\* it raised ("" when it returned) and the value it returned (<<>>: None)
Llamada(op, cta, args, exc, ret) ==
    [op |-> op, cta |-> cta, args |-> args, exc |-> exc, ret |-> ret]

NoLlamada == Llamada("", "", <<>>, "", <<>>)

\* a call on the PilaMinimo: the method, its arguments, _elementos before
\* the call, the exception raised ("" when it returned) and the value
\* returned (<<>>: None)
LlamadaMin(op, args, antes, exc, ret) ==
    [op |-> op, args |-> args, antes |-> antes, exc |-> exc, ret |-> ret]

NoLlamadaMin == LlamadaMin("", <<>>, <<>>, "", <<>>)

Top(s) == s[Len(s)]
Pop(s) == SubSeq(s, 1, Len(s) - 1)

\* pila = []; tokens = expresion.split()
EvalSplit ==
    /\ epc = "call"
    /\ tokens' = Split(expresion)
    /\ pila' = <<>>
    /\ i' = 1
    /\ epc' = "loop"
    /\ UNCHANGED <<expresion, eret>>
    /\ UNCHANGED noEval

\* for token in tokens: if token in operadores: two pops, apply, append
EvalOperador ==
    /\ epc = "loop" /\ i <= Len(tokens)
    /\ tokens[i] \in operadores
    /\ Len(pila) >= 2
    /\ LET operando2 == Top(pila)
           operando1 == Top(Pop(pila))
       IN  /\ ~AplicaRaises(tokens[i], operando1, operando2)
           /\ pila' = Append(Pop(Pop(pila)), Aplica(tokens[i], operando1, operando2))
    /\ i' = i + 1
    /\ UNCHANGED <<expresion, tokens, epc, eret>>
    /\ UNCHANGED noEval

\* a missing operand read as 0.0 instead of raising
EvalOperadorSinOperandos ==
    /\ epc = "loop" /\ i <= Len(tokens)
    /\ tokens[i] \in operadores
    /\ Len(pila) < 2
    /\ pila' = <<Zero>>
    /\ i' = i + 1
    /\ UNCHANGED <<expresion, tokens, epc, eret>>
    /\ UNCHANGED noEval

\* the IndexError noted and the loop gone on with the next token
EvalOperadorIndexErrorSigue ==
    /\ epc = "loop" /\ i <= Len(tokens)
    /\ tokens[i] \in operadores
    /\ Len(pila) < 2
    /\ pila' = <<>>
    /\ i' = i + 1
    /\ eret' = Raise("IndexError")
    /\ UNCHANGED <<expresion, tokens, epc>>
    /\ UNCHANGED noEval

\* pila.pop() on an empty list raises IndexError (first or second pop)
EvalOperadorIndexError ==
    /\ epc = "loop" /\ i <= Len(tokens)
    /\ tokens[i] \in operadores
    /\ Len(pila) < 2
    /\ pila' = <<>>
    /\ epc' = "done"
    /\ eret' = Raise("IndexError")
    /\ UNCHANGED <<expresion, tokens, i>>
    /\ UNCHANGED noEval

\* a division by zero that yields 0.0 instead of raising
EvalOperadorDivisionSegura ==
    /\ epc = "loop" /\ i <= Len(tokens)
    /\ tokens[i] \in operadores
    /\ Len(pila) >= 2
    /\ AplicaRaises(tokens[i], Top(Pop(pila)), Top(pila))
    /\ pila' = Append(Pop(Pop(pila)), Zero)
    /\ i' = i + 1
    /\ UNCHANGED <<expresion, tokens, epc, eret>>
    /\ UNCHANGED noEval

\* a / b with b == 0.0 raises ZeroDivisionError; both operands are popped
EvalOperadorZeroDivision ==
    /\ epc = "loop" /\ i <= Len(tokens)
    /\ tokens[i] \in operadores
    /\ Len(pila) >= 2
    /\ AplicaRaises(tokens[i], Top(Pop(pila)), Top(pila))
    /\ pila' = Pop(Pop(pila))
    /\ epc' = "done"
    /\ eret' = Raise("ZeroDivisionError")
    /\ UNCHANGED <<expresion, tokens, i>>
    /\ UNCHANGED noEval

\* else: pila.append(float(token))
EvalNumero ==
    /\ epc = "loop" /\ i <= Len(tokens)
    /\ tokens[i] \notin operadores
    /\ FloatOk(tokens[i])
    /\ pila' = Append(pila, Float(tokens[i]))
    /\ i' = i + 1
    /\ UNCHANGED <<expresion, tokens, epc, eret>>
    /\ UNCHANGED noEval

\* a token that is no number skipped instead of raising
EvalNumeroOmite ==
    /\ epc = "loop" /\ i <= Len(tokens)
    /\ tokens[i] \notin operadores
    /\ ~FloatOk(tokens[i])
    /\ i' = i + 1
    /\ UNCHANGED <<expresion, tokens, pila, epc, eret>>
    /\ UNCHANGED noEval

\* float(token) raises ValueError on a token that is no number
EvalNumeroValueError ==
    /\ epc = "loop" /\ i <= Len(tokens)
    /\ tokens[i] \notin operadores
    /\ ~FloatOk(tokens[i])
    /\ epc' = "done"
    /\ eret' = RaiseFloat(tokens[i])
    /\ UNCHANGED <<expresion, tokens, i, pila>>
    /\ UNCHANGED noEval

\* return pila.pop()
EvalReturn ==
    /\ epc = "loop" /\ i > Len(tokens)
    /\ Len(pila) >= 1
    /\ pila' = Pop(pila)
    /\ epc' = "done"
    /\ eret' = Return(Top(pila))
    /\ UNCHANGED <<expresion, tokens, i>>
    /\ UNCHANGED noEval

\* return pila.pop() on an empty list raises IndexError
EvalReturnIndexError ==
    /\ epc = "loop" /\ i > Len(tokens)
    /\ Len(pila) = 0
    /\ epc' = "done"
    /\ eret' = Raise("IndexError")
    /\ UNCHANGED <<expresion, tokens, i, pila>>
    /\ UNCHANGED noEval

EvalNext ==
    \/ EvalSplit
    \/ EvalOperador
    \/ EvalOperadorIndexError
    \/ EvalOperadorZeroDivision
    \/ EvalNumero
    \/ EvalNumeroValueError
    \/ EvalReturn
    \/ EvalReturnIndexError

----------------------------------------------------------------------------
(* Inputs of evaluar_postfija *)

\* shapes of token sequences: "n" stands for a number, "o" for an operator

\* shapes of the well-formed postfix expressions with exactly n operators
RECURSIVE PostfixShapes(_)
PostfixShapes(n) ==
    IF n = 0 THEN {<<"n">>}
    ELSE LET sub == [m \in 0..(n - 1) |-> PostfixShapes(m)]
         IN  UNION {{a \o b \o <<"o">> : a \in sub[m], b \in sub[n - 1 - m]}
                    : m \in 0..(n - 1)}

EvalShapes ==
    SeqsUpTo({"n", "o"} \cup JunkTokens, MaxJunkLen)
        \cup UNION {PostfixShapes(n) : n \in 0..MaxOps}

\* positions 1..p of shape sh that hold c
CountUpTo(sh, p, c) == Cardinality({q \in 1..p : sh[q] = c})

\* the shape with its numbers and operators filled in
Fill(sh, ns, os) ==
    [p \in 1..Len(sh) |->
        IF sh[p] = "n" THEN ns[CountUpTo(sh, p, "n")]
        ELSE IF sh[p] = "o" THEN os[CountUpTo(sh, p, "o")]
        ELSE sh[p]]

\* every way to fill the shapes of S
Filled(sh) ==
    {Fill(sh, ns, os) :
        ns \in [1..CountUpTo(sh, Len(sh), "n") -> NumTokens],
        os \in [1..CountUpTo(sh, Len(sh), "o") -> OpTokens]}

EvalInit ==
    /\ \E sh \in EvalShapes : \E t \in Filled(sh) : expresion = Unir(t)
    /\ tokens = <<>>
    /\ i = 1
    /\ pila = <<>>
    /\ epc = "call"
    /\ eret = Running
    /\ infija = <<>> /\ ctokens = <<>> /\ k = 1 /\ salida = <<>>
    /\ pilaOp = <<>> /\ cpc = "idle" /\ cret = CRunning
    /\ p14 = <<>> /\ p2 = <<>> /\ llamada = NoCall
    /\ cuentas = SinCuentas /\ ultima = NoLlamada
    /\ elementos = <<>> /\ minimos = <<>> /\ llamadaMin = NoLlamadaMin
    /\ vexpresion = <<>> /\ vi = 1 /\ vpila = <<>> /\ vret = <<TRUE>>
    /\ otro = NoMarco /\ hilo = 1

SpecEval == EvalInit /\ [][EvalNext]_vars

----------------------------------------------------------------------------
(* infijaAPostfija (pseudocode of Ejercicio 19, run on the Pila of          *)
(* Ejercicio 14, whose peek and pop raise IndexError on an empty stack)     *)

\* every operator of the same precedence
PrecedenciaPlana(op) == 1

\* the table upside down
PrecedenciaInvertida(op) == IF op \in {"*", "/"} THEN 1 ELSE 2

precedencia(op) == IF op \in {"*", "/"} THEN 2 ELSE 1

\* tokenizar(expresion): the tokens between the spaces
Tokenizar(cadena) == Split(cadena)

\* salida <- lista vacia; pila <- nueva Pila(); tokens <- tokenizar(expresion)
ConvTokenizar ==
    /\ cpc = "call"
    /\ ctokens' = Tokenizar(infija)
    /\ salida' = <<>>
    /\ pilaOp' = <<>>
    /\ k' = 1
    /\ cpc' = "para"
    /\ UNCHANGED <<infija, cret>>
    /\ UNCHANGED noConv

\* a number pushed on the Pila instead of being added to salida
ConvNumeroApila ==
    /\ cpc = "para" /\ k <= Len(ctokens)
    /\ FloatOk(ctokens[k])
    /\ pilaOp' = Append(pilaOp, ctokens[k])
    /\ k' = k + 1
    /\ UNCHANGED <<infija, ctokens, salida, cpc, cret>>
    /\ UNCHANGED noConv

\* Si token es numero: agregar token a salida
ConvNumero ==
    /\ cpc = "para" /\ k <= Len(ctokens)
    /\ FloatOk(ctokens[k])
    /\ salida' = Append(salida, ctokens[k])
    /\ k' = k + 1
    /\ UNCHANGED <<infija, ctokens, pilaOp, cpc, cret>>
    /\ UNCHANGED noConv

\* SiNo Si token es '(': pila.push(token)
ConvParenIzq ==
    /\ cpc = "para" /\ k <= Len(ctokens)
    /\ ctokens[k] = "("
    /\ pilaOp' = Append(pilaOp, ctokens[k])
    /\ k' = k + 1
    /\ UNCHANGED <<infija, ctokens, salida, cpc, cret>>
    /\ UNCHANGED noConv

\* SiNo Si token es ')': Mientras pila.peek() != '(': agregar pila.pop() a salida
ConvParenDerDesapila ==
    /\ cpc = "para" /\ k <= Len(ctokens)
    /\ ctokens[k] = ")"
    /\ Len(pilaOp) > 0
    /\ Top(pilaOp) # "("
    /\ salida' = Append(salida, Top(pilaOp))
    /\ pilaOp' = Pop(pilaOp)
    /\ UNCHANGED <<infija, ctokens, k, cpc, cret>>
    /\ UNCHANGED noConv

\* the '(' popped at the end of the Mientras added to salida
ConvParenDerCierraEmite ==
    /\ cpc = "para" /\ k <= Len(ctokens)
    /\ ctokens[k] = ")"
    /\ Len(pilaOp) > 0
    /\ Top(pilaOp) = "("
    /\ salida' = Append(salida, Top(pilaOp))
    /\ pilaOp' = Pop(pilaOp)
    /\ k' = k + 1
    /\ UNCHANGED <<infija, ctokens, cpc, cret>>
    /\ UNCHANGED noConv

\* the Mientras ends with '(' on top: pila.pop() removes it
ConvParenDerCierra ==
    /\ cpc = "para" /\ k <= Len(ctokens)
    /\ ctokens[k] = ")"
    /\ Len(pilaOp) > 0
    /\ Top(pilaOp) = "("
    /\ pilaOp' = Pop(pilaOp)
    /\ k' = k + 1
    /\ UNCHANGED <<infija, ctokens, salida, cpc, cret>>
    /\ UNCHANGED noConv

\* a ')' met with the empty Pila is skipped
ConvParenDerIgnora ==
    /\ cpc = "para" /\ k <= Len(ctokens)
    /\ ctokens[k] = ")"
    /\ Len(pilaOp) = 0
    /\ k' = k + 1
    /\ UNCHANGED <<infija, ctokens, salida, pilaOp, cpc, cret>>
    /\ UNCHANGED noConv

\* pila.peek() on the empty Pila raises IndexError
ConvParenDerIndexError ==
    /\ cpc = "para" /\ k <= Len(ctokens)
    /\ ctokens[k] = ")"
    /\ Len(pilaOp) = 0
    /\ cpc' = "done"
    /\ cret' = CRaise("IndexError")
    /\ UNCHANGED <<infija, ctokens, k, salida, pilaOp>>
    /\ UNCHANGED noConv

\* > in place of >=: equal precedence does not pop
OperadorDesapilaEstricta(p, token) ==
    /\ Len(p) > 0
    /\ Top(p) # "("
    /\ precedencia(Top(p)) > precedencia(token)

\* the condition of the Mientras of the operator branch
OperadorDesapila(p, token) ==
    /\ Len(p) > 0
    /\ Top(p) # "("
    /\ precedencia(Top(p)) >= precedencia(token)

\* SiNo (operador): Mientras ... : agregar pila.pop() a salida
ConvOperadorDesapila ==
    /\ cpc = "para" /\ k <= Len(ctokens)
    /\ ~FloatOk(ctokens[k]) /\ ctokens[k] \notin {"(", ")"}
    /\ OperadorDesapila(pilaOp, ctokens[k])
    /\ salida' = Append(salida, Top(pilaOp))
    /\ pilaOp' = Pop(pilaOp)
    /\ UNCHANGED <<infija, ctokens, k, cpc, cret>>
    /\ UNCHANGED noConv

\* the Mientras ends: pila.push(token)
ConvOperadorApila ==
    /\ cpc = "para" /\ k <= Len(ctokens)
    /\ ~FloatOk(ctokens[k]) /\ ctokens[k] \notin {"(", ")"}
    /\ ~OperadorDesapila(pilaOp, ctokens[k])
    /\ pilaOp' = Append(pilaOp, ctokens[k])
    /\ k' = k + 1
    /\ UNCHANGED <<infija, ctokens, salida, cpc, cret>>
    /\ UNCHANGED noConv

\* Mientras NO pila.isEmpty(): agregar pila.pop() a salida
ConvVaciaPila ==
    /\ cpc = "para" /\ k > Len(ctokens)
    /\ Len(pilaOp) > 0
    /\ salida' = Append(salida, Top(pilaOp))
    /\ pilaOp' = Pop(pilaOp)
    /\ UNCHANGED <<infija, ctokens, k, cpc, cret>>
    /\ UNCHANGED noConv

\* Retornar unir salida con espacios
ConvReturn ==
    /\ cpc = "para" /\ k > Len(ctokens)
    /\ Len(pilaOp) = 0
    /\ cpc' = "done"
    /\ cret' = CReturn(Unir(salida))
    /\ UNCHANGED <<infija, ctokens, k, salida, pilaOp>>
    /\ UNCHANGED noConv

\* the pipeline: the postfix string the conversion returned is evaluated
Pipeline ==
    /\ cpc = "done" /\ cret.kind = "return"
    /\ epc = "idle"
    /\ expresion' = cret.val
    /\ epc' = "call"
    /\ UNCHANGED <<tokens, i, pila, eret>>
    /\ UNCHANGED noEval

ConvNext ==
    \/ ConvTokenizar
    \/ ConvNumero
    \/ ConvParenIzq
    \/ ConvParenDerDesapila
    \/ ConvParenDerCierra
    \/ ConvParenDerIndexError
    \/ ConvOperadorDesapila
    \/ ConvOperadorApila
    \/ ConvVaciaPila
    \/ ConvReturn

----------------------------------------------------------------------------
(* Inputs of infijaAPostfija *)

\* shapes of the valid infix expressions with n operators and pairs of
\* parentheses together
RECURSIVE InfixShapes(_)
InfixShapes(n) ==
    IF n = 0 THEN {<<"n">>}
    ELSE LET sub == [m \in 0..(n - 1) |-> InfixShapes(m)]
         IN  {<<"(">> \o e \o <<")">> : e \in sub[n - 1]}
             \cup UNION {{a \o <<"o">> \o b : a \in sub[m], b \in sub[n - 1 - m]}
                         : m \in 0..(n - 1)}

ValidShapes == UNION {InfixShapes(n) : n \in 0..MaxInfixSize}

\* sh without its p-th token
Remove(sh, p) == SubSeq(sh, 1, p - 1) \o SubSeq(sh, p + 1, Len(sh))

\* the smaller valid shapes with one parenthesis missing
UnbalancedShapes ==
    UNION {{Remove(sh, p) : p \in {q \in 1..Len(sh) : sh[q] \in ParenTokens}}
           : sh \in UNION {InfixShapes(n) : n \in 0..(MaxInfixSize - 1)}}

ConvShapes ==
    SeqsUpTo({"n", "o"} \cup ParenTokens, MaxJunkLen)
        \cup ValidShapes \cup UnbalancedShapes

ConvInit ==
    /\ \E sh \in ConvShapes : \E t \in Filled(sh) : infija = Unir(t)
    /\ ctokens = <<>> /\ k = 1 /\ salida = <<>> /\ pilaOp = <<>>
    /\ cpc = "call" /\ cret = CRunning
    /\ expresion = <<>> /\ tokens = <<>> /\ i = 1 /\ pila = <<>>
    /\ epc = "idle" /\ eret = Running
    /\ p14 = <<>> /\ p2 = <<>> /\ llamada = NoCall
    /\ cuentas = SinCuentas /\ ultima = NoLlamada
    /\ elementos = <<>> /\ minimos = <<>> /\ llamadaMin = NoLlamadaMin
    /\ vexpresion = <<>> /\ vi = 1 /\ vpila = <<>> /\ vret = <<TRUE>>
    /\ otro = NoMarco /\ hilo = 1

PipelineNext == ConvNext \/ Pipeline \/ EvalNext

SpecConv == ConvInit /\ [][PipelineNext]_vars

----------------------------------------------------------------------------
(* class Pila: Ejercicio 14 of TareaEjercicio.py (p14) and Ejemplo2.py (p2) *)

Elementos == {"a", "b"}

\* Pila.push (Ejercicio 14): self._elementos.append(elemento)
Pila14Push ==
    /\ Len(p14) < MaxPila
    /\ \E elemento \in Elementos :
        /\ p14' = Append(p14, elemento)
        /\ llamada' = Call("p14", "push", p14, "return", "None", 0, FALSE)
    /\ UNCHANGED p2
    /\ UNCHANGED noPila

\* the element pushed first taken instead of the one pushed last
Pila14PopPrimero ==
    /\ Len(p14) # 0
    /\ p14' = Tail(p14)
    /\ llamada' = Call("p14", "pop", p14, "return", Head(p14), 0, FALSE)
    /\ UNCHANGED p2
    /\ UNCHANGED noPila

\* Pila.pop (Ejercicio 14) on a non-empty stack
Pila14Pop ==
    /\ Len(p14) # 0
    /\ p14' = Pop(p14)
    /\ llamada' = Call("p14", "pop", p14, "return", Top(p14), 0, FALSE)
    /\ UNCHANGED p2
    /\ UNCHANGED noPila

\* Pila.pop (Ejercicio 14): raise IndexError("Pop desde pila vacia")
Pila14PopIndexError ==
    /\ Len(p14) = 0
    /\ llamada' = Call("p14", "pop", p14, "IndexError", "None", 0, FALSE)
    /\ UNCHANGED <<p14, p2>>
    /\ UNCHANGED noPila

\* Pila.peek (Ejercicio 14) on a non-empty stack
Pila14Peek ==
    /\ Len(p14) # 0
    /\ llamada' = Call("p14", "peek", p14, "return", Top(p14), 0, FALSE)
    /\ UNCHANGED <<p14, p2>>
    /\ UNCHANGED noPila

\* Pila.peek (Ejercicio 14): raise IndexError("Peek en pila vacia")
Pila14PeekIndexError ==
    /\ Len(p14) = 0
    /\ llamada' = Call("p14", "peek", p14, "IndexError", "None", 0, FALSE)
    /\ UNCHANGED <<p14, p2>>
    /\ UNCHANGED noPila

\* Pila.is_empty (Ejercicio 14)
Pila14IsEmpty ==
    /\ llamada' = Call("p14", "is_empty", p14, "return", "None", 0, Len(p14) = 0)
    /\ UNCHANGED <<p14, p2>>
    /\ UNCHANGED noPila

\* Pila.size (Ejercicio 14)
Pila14Size ==
    /\ llamada' = Call("p14", "size", p14, "return", "None", Len(p14), FALSE)
    /\ UNCHANGED <<p14, p2>>
    /\ UNCHANGED noPila

\* Pila.push (Ejemplo2)
Pila2Push ==
    /\ Len(p2) < MaxPila
    /\ \E elemento \in Elementos :
        /\ p2' = Append(p2, elemento)
        /\ llamada' = Call("p2", "push", p2, "return", "None", 0, FALSE)
    /\ UNCHANGED p14
    /\ UNCHANGED noPila

\* Pila.pop (Ejemplo2): if not self.esVacia(): return self._elementos.pop()
Pila2Pop ==
    /\ Len(p2) # 0
    /\ p2' = Pop(p2)
    /\ llamada' = Call("p2", "pop", p2, "return", Top(p2), 0, FALSE)
    /\ UNCHANGED p14
    /\ UNCHANGED noPila

\* Pila.pop (Ejemplo2) on the empty stack: falls off the if, returns None
Pila2PopVacia ==
    /\ Len(p2) = 0
    /\ llamada' = Call("p2", "pop", p2, "return", "None", 0, FALSE)
    /\ UNCHANGED <<p14, p2>>
    /\ UNCHANGED noPila

\* Pila.tope (Ejemplo2): if not self.esVacia(): return self._elementos[-1]
Pila2Tope ==
    /\ Len(p2) # 0
    /\ llamada' = Call("p2", "tope", p2, "return", Top(p2), 0, FALSE)
    /\ UNCHANGED <<p14, p2>>
    /\ UNCHANGED noPila

\* Pila.tope (Ejemplo2) on the empty stack: returns None
Pila2TopeVacia ==
    /\ Len(p2) = 0
    /\ llamada' = Call("p2", "tope", p2, "return", "None", 0, FALSE)
    /\ UNCHANGED <<p14, p2>>
    /\ UNCHANGED noPila

\* Pila.esVacia (Ejemplo2)
Pila2EsVacia ==
    /\ llamada' = Call("p2", "esVacia", p2, "return", "None", 0, Len(p2) = 0)
    /\ UNCHANGED <<p14, p2>>
    /\ UNCHANGED noPila

PilaNext ==
    \/ Pila14Push
    \/ Pila14Pop
    \/ Pila14PopIndexError
    \/ Pila14Peek
    \/ Pila14PeekIndexError
    \/ Pila14IsEmpty
    \/ Pila14Size
    \/ Pila2Push
    \/ Pila2Pop
    \/ Pila2PopVacia
    \/ Pila2Tope
    \/ Pila2TopeVacia
    \/ Pila2EsVacia

\* p = Pila() for both classes
PilaInit ==
    /\ p14 = <<>> /\ p2 = <<>> /\ llamada = NoCall
    /\ cuentas = SinCuentas /\ ultima = NoLlamada
    /\ elementos = <<>> /\ minimos = <<>> /\ llamadaMin = NoLlamadaMin
    /\ vexpresion = <<>> /\ vi = 1 /\ vpila = <<>> /\ vret = <<TRUE>>
    /\ otro = NoMarco /\ hilo = 1
    /\ expresion = <<>> /\ tokens = <<>> /\ i = 1 /\ pila = <<>>
    /\ epc = "idle" /\ eret = Running
    /\ infija = <<>> /\ ctokens = <<>> /\ k = 1 /\ salida = <<>>
    /\ pilaOp = <<>> /\ cpc = "idle" /\ cret = CRunning

SpecPila == PilaInit /\ [][PilaNext]_vars

----------------------------------------------------------------------------
(* class CuentaBancaria *)

\* the argument None
None == "None"

\* arguments of the calls
Titulares == {"", " ", " Ana "}
Numeros == {"", " ", "001", " 002 "}
Montos == {-1, 0, 1, 2}

\* s.strip()
Strip(s) ==
    CASE s = " " -> ""
      [] s = " Ana " -> "Ana"
      [] s = " 002 " -> "002"
      [] OTHER -> s

\* not s or s.strip() == ""
Vacio(s) == s = "" \/ Strip(s) = ""

\* Transaccion(tipo, monto, fecha, saldo_resultante, descripcion); fecha and
\* descripcion are read by no operation and left out
Transaccion(tipo, monto, saldo_resultante) ==
    [tipo |-> tipo, monto |-> monto, saldo_resultante |-> saldo_resultante]

\* _registrar_transaccion: the entry holds the saldo at the time of the call
RegistrarTransaccion(cu, tipo, monto) ==
    [cu EXCEPT !.historial = Append(@, Transaccion(tipo, monto, cu.saldo))]

\* the asserts of _verificar_invariante
VerificarInvariante(cu) ==
    cu.saldo >= 0 /\ cu.titular # "" /\ cu.numero # ""

\* how a method leaves its object: the exception raised ("" when none), the
\* fields of the object, the value returned
Res(exc, cu, ret) == [exc |-> exc, cu |-> cu, ret |-> ret]

\* the exception of a method that got past its checks and changed the object
Verificada(cu) == IF VerificarInvariante(cu) THEN "" ELSE "AssertionError"

\* an account opened without its APERTURA entry
InitSinApertura(titular, numero_cuenta) ==
    IF Vacio(titular) THEN Res("ValueError", NoCuenta, <<>>)
    ELSE IF Vacio(numero_cuenta) THEN Res("ValueError", NoCuenta, <<>>)
    ELSE LET cu == [creada |-> TRUE,
                    titular |-> Strip(titular),
                    numero |-> Strip(numero_cuenta),
                    saldo |-> 0,
                    activa |-> TRUE,
                    historial |-> <<>>]
         IN  Res(Verificada(cu), cu, <<>>)

\* CuentaBancaria.__init__
Init(titular, numero_cuenta) ==
    IF Vacio(titular) THEN Res("ValueError", NoCuenta, <<>>)
    ELSE IF Vacio(numero_cuenta) THEN Res("ValueError", NoCuenta, <<>>)
    ELSE LET cu == [creada |-> TRUE,
                    titular |-> Strip(titular),
                    numero |-> Strip(numero_cuenta),
                    saldo |-> 0,
                    activa |-> TRUE,
                    historial |-> <<Transaccion("APERTURA", 0, 0)>>]
         IN  Res(Verificada(cu), cu, <<>>)

\* a blocked account taken for an active one
BloqueadaNunca(cu) == FALSE

\* _verificar_cuenta_activa raises CuentaBloqueadaError
Bloqueada(cu) == ~cu.activa

\* an amount of zero taken for a valid one
MontoInvalidoNegativo(monto) == monto < 0

\* if monto <= 0: raise MontoInvalidoError
MontoInvalido(monto) == monto <= 0

\* every amount taken for a covered one
SaldoInsuficienteNunca(cu, monto) == FALSE

\* the whole saldo taken for too much
SaldoInsuficienteMayorIgual(cu, monto) == monto >= cu.saldo

\* if monto > self._saldo: raise SaldoInsuficienteError
SaldoInsuficiente(cu, monto) == monto > cu.saldo

\* the amount assigned to the saldo instead of added to it
DepositarAsigna(cu, monto) ==
    IF Bloqueada(cu) THEN Res("CuentaBloqueadaError", cu, <<>>)
    ELSE IF MontoInvalido(monto) THEN Res("MontoInvalidoError", cu, <<>>)
    ELSE LET n == RegistrarTransaccion(
                      [cu EXCEPT !.saldo = monto], "DEPOSITO", monto)
         IN  Res(Verificada(n), n, <<>>)

\* CuentaBancaria.depositar
DepositarEn(cu, monto) ==
    IF Bloqueada(cu) THEN Res("CuentaBloqueadaError", cu, <<>>)
    ELSE IF MontoInvalido(monto) THEN Res("MontoInvalidoError", cu, <<>>)
    ELSE LET n == RegistrarTransaccion(
                      [cu EXCEPT !.saldo = @ + monto], "DEPOSITO", monto)
         IN  Res(Verificada(n), n, <<>>)

\* the refused withdrawal entered in the historial before it is refused
RetirarRegistraAntes(cu, monto) ==
    IF Bloqueada(cu) THEN Res("CuentaBloqueadaError", cu, <<>>)
    ELSE IF MontoInvalido(monto) THEN Res("MontoInvalidoError", cu, <<>>)
    ELSE IF SaldoInsuficiente(cu, monto)
         THEN Res("SaldoInsuficienteError",
                  RegistrarTransaccion(cu, "RETIRO", monto), <<>>)
    ELSE LET n == RegistrarTransaccion(
                      [cu EXCEPT !.saldo = @ - monto], "RETIRO", monto)
         IN  Res(Verificada(n), n, <<monto>>)

\* CuentaBancaria.retirar
RetirarDe(cu, monto) ==
    IF Bloqueada(cu) THEN Res("CuentaBloqueadaError", cu, <<>>)
    ELSE IF MontoInvalido(monto) THEN Res("MontoInvalidoError", cu, <<>>)
    ELSE IF SaldoInsuficiente(cu, monto)
         THEN Res("SaldoInsuficienteError", cu, <<>>)
    ELSE LET n == RegistrarTransaccion(
                      [cu EXCEPT !.saldo = @ - monto], "RETIRO", monto)
         IN  Res(Verificada(n), n, <<monto>>)

\* self._historial[-1].tipo = tipo
Retipar(cu, tipo) ==
    [cu EXCEPT !.historial[Len(cu.historial)].tipo = tipo]

\* how a method of two objects leaves them: cs maps the names to the objects
Res2(exc, cs) == [exc |-> exc, cs |-> cs]

\* the destination credited without the origin being debited
TransferirSinRetiro(cs, origen, destino, monto) ==
    IF destino = None THEN Res2("ValueError", cs)
    ELSE IF cs[origen].numero = cs[destino].numero THEN Res2("ValueError", cs)
    ELSE LET r == RetirarDe(cs[origen], monto)
         IN  IF r.exc # "" THEN Res2(r.exc, cs)
             ELSE LET d == DepositarEn(cs[destino], monto)
                  IN  Res2(d.exc, [cs EXCEPT ![destino] = d.cu])

\* CuentaBancaria.transferir: self.retirar(monto), then
\* cuenta_destino.depositar(monto), then the two new entries are renamed
TransferirEn(cs, origen, destino, monto) ==
    IF destino = None THEN Res2("ValueError", cs)
    ELSE IF cs[origen].numero = cs[destino].numero THEN Res2("ValueError", cs)
    ELSE LET r == RetirarDe(cs[origen], monto)
             cs1 == [cs EXCEPT ![origen] = r.cu]
         IN  IF r.exc # "" THEN Res2(r.exc, cs1)
             ELSE LET d == DepositarEn(cs1[destino], monto)
                      cs2 == [cs1 EXCEPT ![destino] = d.cu]
                  IN  IF d.exc # "" THEN Res2(d.exc, cs2)
                      ELSE Res2("",
                               [cs2 EXCEPT
                                   ![origen] =
                                       Retipar(@, "TRANSFERENCIA_ENVIADA"),
                                   ![destino] =
                                       Retipar(@, "TRANSFERENCIA_RECIBIDA")])

RECURSIVE Suma(_, _)
Suma(f, S) ==
    IF S = {} THEN 0
    ELSE LET x == CHOOSE y \in S : TRUE IN f[x] + Suma(f, S \ {x})

\* entries of all historiales besides the APERTURA ones
Movs(cs) ==
    Suma([c \in Cuentas |->
             IF cs[c].creada THEN Len(cs[c].historial) - 1 ELSE 0], Cuentas)

Creadas == {c \in Cuentas : cuentas[c].creada}

\* c = CuentaBancaria(titular, numero_cuenta); the name is bound when the
\* constructor returns
Crear(c, titular, numero_cuenta) ==
    /\ ~cuentas[c].creada
    /\ LET r == Init(titular, numero_cuenta)
       IN  /\ cuentas' = IF r.exc = "" THEN [cuentas EXCEPT ![c] = r.cu]
                         ELSE cuentas
           /\ ultima' = Llamada("crear", c, <<titular, numero_cuenta>>,
                                r.exc, <<>>)
    /\ UNCHANGED noBanco

\* c.depositar(monto)
Depositar(c, monto) ==
    /\ cuentas[c].creada
    /\ LET r == DepositarEn(cuentas[c], monto)
       IN  /\ cuentas' = [cuentas EXCEPT ![c] = r.cu]
           /\ ultima' = Llamada("depositar", c, <<monto>>, r.exc, r.ret)
    /\ Movs(cuentas') <= MaxMovs
    /\ UNCHANGED noBanco

\* c.retirar(monto)
Retirar(c, monto) ==
    /\ cuentas[c].creada
    /\ LET r == RetirarDe(cuentas[c], monto)
       IN  /\ cuentas' = [cuentas EXCEPT ![c] = r.cu]
           /\ ultima' = Llamada("retirar", c, <<monto>>, r.exc, r.ret)
    /\ Movs(cuentas') <= MaxMovs
    /\ UNCHANGED noBanco

\* c.transferir(destino, monto), destino an object or None
Transferir(c, destino, monto) ==
    /\ cuentas[c].creada
    /\ destino \in Creadas \cup {None}
    /\ LET r == TransferirEn(cuentas, c, destino, monto)
       IN  /\ cuentas' = r.cs
           /\ ultima' = Llamada("transferir", c, <<destino, monto>>,
                                r.exc, <<>>)
    /\ Movs(cuentas') <= MaxMovs
    /\ UNCHANGED noBanco

\* c.bloquear_cuenta()
BloquearCuenta(c) ==
    /\ cuentas[c].creada
    /\ cuentas' = [cuentas EXCEPT ![c].activa = FALSE]
    /\ ultima' = Llamada("bloquear_cuenta", c, <<>>, "", <<>>)
    /\ UNCHANGED noBanco

\* c.activar_cuenta()
ActivarCuenta(c) ==
    /\ cuentas[c].creada
    /\ cuentas' = [cuentas EXCEPT ![c].activa = TRUE]
    /\ ultima' = Llamada("activar_cuenta", c, <<>>, "", <<>>)
    /\ UNCHANGED noBanco

BancoNext ==
    \/ \E c \in Cuentas, t \in Titulares, n \in Numeros : Crear(c, t, n)
    \/ \E c \in Cuentas, m \in Montos : Depositar(c, m)
    \/ \E c \in Cuentas, m \in Montos : Retirar(c, m)
    \/ \E c \in Cuentas, d \in Cuentas \cup {None}, m \in Montos :
           Transferir(c, d, m)
    \/ \E c \in Cuentas : BloquearCuenta(c)
    \/ \E c \in Cuentas : ActivarCuenta(c)

\* no object has been constructed yet
BancoInit ==
    /\ cuentas = SinCuentas /\ ultima = NoLlamada
    /\ elementos = <<>> /\ minimos = <<>> /\ llamadaMin = NoLlamadaMin
    /\ vexpresion = <<>> /\ vi = 1 /\ vpila = <<>> /\ vret = <<TRUE>>
    /\ otro = NoMarco /\ hilo = 1
    /\ expresion = <<>> /\ tokens = <<>> /\ i = 1 /\ pila = <<>>
    /\ epc = "idle" /\ eret = Running
    /\ infija = <<>> /\ ctokens = <<>> /\ k = 1 /\ salida = <<>>
    /\ pilaOp = <<>> /\ cpc = "idle" /\ cret = CRunning
    /\ p14 = <<>> /\ p2 = <<>> /\ llamada = NoCall

SpecBanco == BancoInit /\ [][BancoNext]_vars

----------------------------------------------------------------------------
(* class PilaMinimo (Ejercicio 25) *)

Valores == 1..MaxValor

\* an element pushed on _minimos only when it is less than the minimum
MinPushEstricto(x) ==
    /\ Len(elementos) < MaxPila
    /\ elementos' = Append(elementos, x)
    /\ minimos' = IF minimos = <<>> \/ x < Top(minimos)
                  THEN Append(minimos, x)
                  ELSE minimos
    /\ llamadaMin' = LlamadaMin("push", <<x>>, elementos, "", <<>>)
    /\ UNCHANGED noMin

\* push(elemento)
MinPush(x) ==
    /\ Len(elementos) < MaxPila
    /\ elementos' = Append(elementos, x)
    /\ minimos' = IF minimos = <<>> \/ x <= Top(minimos)
                  THEN Append(minimos, x)
                  ELSE minimos
    /\ llamadaMin' = LlamadaMin("push", <<x>>, elementos, "", <<>>)
    /\ UNCHANGED noMin

\* pop() on a PilaMinimo with elements; self._minimos[-1] raises IndexError
\* on an empty list, after the element has been popped
MinPop ==
    /\ elementos # <<>>
    /\ elementos' = Pop(elementos)
    /\ IF minimos = <<>>
       THEN /\ minimos' = minimos
            /\ llamadaMin' = LlamadaMin("pop", <<>>, elementos,
                                        "IndexError", <<>>)
       ELSE /\ minimos' = IF Top(elementos) = Top(minimos)
                          THEN Pop(minimos)
                          ELSE minimos
            /\ llamadaMin' = LlamadaMin("pop", <<>>, elementos, "",
                                        <<Top(elementos)>>)
    /\ UNCHANGED noMin

\* pop() on an empty PilaMinimo
MinPopIndexError ==
    /\ elementos = <<>>
    /\ llamadaMin' = LlamadaMin("pop", <<>>, elementos, "IndexError", <<>>)
    /\ UNCHANGED <<elementos, minimos>>
    /\ UNCHANGED noMin

\* peek()
MinPeek ==
    /\ elementos # <<>>
    /\ llamadaMin' = LlamadaMin("peek", <<>>, elementos, "",
                                <<Top(elementos)>>)
    /\ UNCHANGED <<elementos, minimos>>
    /\ UNCHANGED noMin

MinPeekIndexError ==
    /\ elementos = <<>>
    /\ llamadaMin' = LlamadaMin("peek", <<>>, elementos, "IndexError", <<>>)
    /\ UNCHANGED <<elementos, minimos>>
    /\ UNCHANGED noMin

\* get_min()
MinGetMin ==
    /\ minimos # <<>>
    /\ llamadaMin' = LlamadaMin("get_min", <<>>, elementos, "",
                                <<Top(minimos)>>)
    /\ UNCHANGED <<elementos, minimos>>
    /\ UNCHANGED noMin

MinGetMinIndexError ==
    /\ minimos = <<>>
    /\ llamadaMin' = LlamadaMin("get_min", <<>>, elementos, "IndexError",
                                <<>>)
    /\ UNCHANGED <<elementos, minimos>>
    /\ UNCHANGED noMin

\* is_empty()
MinIsEmpty ==
    /\ llamadaMin' = LlamadaMin("is_empty", <<>>, elementos, "",
                                <<Len(elementos) = 0>>)
    /\ UNCHANGED <<elementos, minimos>>
    /\ UNCHANGED noMin

MinNext ==
    \/ \E x \in Valores : MinPush(x)
    \/ MinPop
    \/ MinPopIndexError
    \/ MinPeek
    \/ MinPeekIndexError
    \/ MinGetMin
    \/ MinGetMinIndexError
    \/ MinIsEmpty

\* pila = PilaMinimo()
MinInit ==
    /\ elementos = <<>> /\ minimos = <<>> /\ llamadaMin = NoLlamadaMin
    /\ vexpresion = <<>> /\ vi = 1 /\ vpila = <<>> /\ vret = <<TRUE>>
    /\ otro = NoMarco /\ hilo = 1
    /\ expresion = <<>> /\ tokens = <<>> /\ i = 1 /\ pila = <<>>
    /\ epc = "idle" /\ eret = Running
    /\ infija = <<>> /\ ctokens = <<>> /\ k = 1 /\ salida = <<>>
    /\ pilaOp = <<>> /\ cpc = "idle" /\ cret = CRunning
    /\ p14 = <<>> /\ p2 = <<>> /\ llamada = NoCall
    /\ cuentas = SinCuentas /\ ultima = NoLlamada

SpecMin == MinInit /\ [][MinNext]_vars

----------------------------------------------------------------------------
(* validar_parentesis (Ejercicio 16) *)

Caracteres == {"(", ")", "a"}

\* if caracter == '(': pila.append(caracter)
ValAbre ==
    /\ vret = <<>> /\ vi <= Len(vexpresion)
    /\ vexpresion[vi] = "("
    /\ vpila' = Append(vpila, vexpresion[vi])
    /\ vi' = vi + 1
    /\ UNCHANGED <<vexpresion, vret>>
    /\ UNCHANGED noVal

\* elif caracter == ')': pila.pop()
ValCierra ==
    /\ vret = <<>> /\ vi <= Len(vexpresion)
    /\ vexpresion[vi] = ")"
    /\ vpila # <<>>
    /\ vpila' = Pop(vpila)
    /\ vi' = vi + 1
    /\ UNCHANGED <<vexpresion, vret>>
    /\ UNCHANGED noVal

\* a ')' met with an empty pila passed over
ValCierraVaciaSigue ==
    /\ vret = <<>> /\ vi <= Len(vexpresion)
    /\ vexpresion[vi] = ")"
    /\ vpila = <<>>
    /\ vi' = vi + 1
    /\ UNCHANGED <<vexpresion, vpila, vret>>
    /\ UNCHANGED noVal

\* elif caracter == ')': if not pila: return False
ValCierraVacia ==
    /\ vret = <<>> /\ vi <= Len(vexpresion)
    /\ vexpresion[vi] = ")"
    /\ vpila = <<>>
    /\ vret' = <<FALSE>>
    /\ UNCHANGED <<vexpresion, vi, vpila>>
    /\ UNCHANGED noVal

\* any other character: neither branch is taken
ValOtro ==
    /\ vret = <<>> /\ vi <= Len(vexpresion)
    /\ vexpresion[vi] \notin {"(", ")"}
    /\ vi' = vi + 1
    /\ UNCHANGED <<vexpresion, vpila, vret>>
    /\ UNCHANGED noVal

\* return len(pila) == 0
ValReturn ==
    /\ vret = <<>> /\ vi > Len(vexpresion)
    /\ vret' = <<Len(vpila) = 0>>
    /\ UNCHANGED <<vexpresion, vi, vpila>>
    /\ UNCHANGED noVal

ValNext ==
    \/ ValAbre
    \/ ValCierra
    \/ ValCierraVacia
    \/ ValOtro
    \/ ValReturn

\* validar_parentesis(expresion) has run pila = []
ValInit ==
    /\ vexpresion \in SeqsUpTo(Caracteres, MaxChars)
    /\ vi = 1 /\ vpila = <<>> /\ vret = <<>>
    /\ expresion = <<>> /\ tokens = <<>> /\ i = 1 /\ pila = <<>>
    /\ epc = "idle" /\ eret = Running
    /\ infija = <<>> /\ ctokens = <<>> /\ k = 1 /\ salida = <<>>
    /\ pilaOp = <<>> /\ cpc = "idle" /\ cret = CRunning
    /\ p14 = <<>> /\ p2 = <<>> /\ llamada = NoCall
    /\ cuentas = SinCuentas /\ ultima = NoLlamada
    /\ elementos = <<>> /\ minimos = <<>> /\ llamadaMin = NoLlamadaMin
    /\ otro = NoMarco /\ hilo = 1

SpecVal == ValInit /\ [][ValNext]_vars

----------------------------------------------------------------------------
(* infijaAPostfija run on the Pila of Ejemplo2.py, whose tope and pop        *)
(* return None on an empty stack (tope standing for peek, esVacia for       *)
(* isEmpty)                                                                 *)

\* the None that salida holds
Nones == Len(SelectSeq(salida, LAMBDA x : x = None))

\* Mientras pila.peek() != '(' on the empty Pila: tope returns None, which
\* is not '(', and the body adds the None that pop returns to salida; the
\* loop goes on with the Pila still empty
ConvParenDerNone ==
    /\ cpc = "para" /\ k <= Len(ctokens)
    /\ ctokens[k] = ")"
    /\ Len(pilaOp) = 0
    /\ Nones < MaxNone
    /\ salida' = Append(salida, None)
    /\ UNCHANGED <<infija, ctokens, k, pilaOp, cpc, cret>>
    /\ UNCHANGED noConv

Conv2Next ==
    \/ ConvTokenizar
    \/ ConvNumero
    \/ ConvParenIzq
    \/ ConvParenDerDesapila
    \/ ConvParenDerCierra
    \/ ConvParenDerNone
    \/ ConvOperadorDesapila
    \/ ConvOperadorApila
    \/ ConvVaciaPila
    \/ ConvReturn

SpecConv2 == ConvInit /\ [][Conv2Next]_vars

----------------------------------------------------------------------------
(* Reference semantics of postfix expressions, independent of the stack *)

\* values on the stack after the first n tokens, when none of them failed
RECURSIVE Depth(_, _)
Depth(t, n) ==
    IF n = 0 THEN 0
    ELSE Depth(t, n - 1) + (IF t[n] \in OpTokens THEN -1 ELSE 1)

\* t denotes an expression: operands and operators only, every operator has
\* its two operands, and one value is left
WellFormed(t) ==
    /\ Len(t) > 0
    /\ \A p \in 1..Len(t) : t[p] \in NumTokens \cup OpTokens
    /\ \A p \in 1..Len(t) : t[p] \in OpTokens => Depth(t, p - 1) >= 2
    /\ Depth(t, Len(t)) = 1

Undefined == Raise("ZeroDivisionError")

RefAplica(op, a, b) ==
    IF a.kind = "raise" THEN a
    ELSE IF b.kind = "raise" THEN b
    ELSE CASE op = "+" -> Return(RAdd(a.val, b.val))
           [] op = "-" -> Return(RSub(a.val, b.val))
           [] op = "*" -> Return(RMul(a.val, b.val))
           [] op = "/" -> IF b.val = Zero THEN Undefined
                          ELSE Return(RDiv(a.val, b.val))

\* the value of the expression a well-formed postfix sequence denotes:
\* "A B op" denotes (A) op (B)
RECURSIVE PostfixValue(_)
PostfixValue(t) ==
    IF Len(t) = 1 THEN Return(Float(t[1]))
    ELSE LET n == Len(t)
             m == CHOOSE m \in 1..(n - 2) :
                      /\ WellFormed(SubSeq(t, 1, m))
                      /\ WellFormed(SubSeq(t, m + 1, n - 1))
         IN  RefAplica(t[n], PostfixValue(SubSeq(t, 1, m)),
                             PostfixValue(SubSeq(t, m + 1, n - 1)))

----------------------------------------------------------------------------
(* Claims about evaluar_postfija *)

\* C1: for every well-formed postfix token sequence the call ends with the
\* value of the expression the sequence denotes, every operator applied as
\* a op b with b the value pushed last (a division by zero inside the
\* expression ends the call with ZeroDivisionError).
C1_PostfixValue ==
    (epc = "done" /\ WellFormed(tokens)) => eret = PostfixValue(tokens)

\* "1 0 -" returned 1, and "1 1 1 + /" returned 1/2
C1_Witness ==
    /\ epc = "done"
    /\ \/ tokens = <<"1", "0", "-">> /\ eret = Return(<<1, 1>>)
       \/ tokens = <<"1", "1", "1", "+", "/">> /\ eret = Return(<<1, 2>>)

\* C2: a call that returns a number consumed every token and found exactly
\* one value on the operand stack (the returned one, popped by the return).
C2_ExactlyOneValueLeft ==
    (epc = "done" /\ eret.kind = "return") => Len(pila) = 0

\* C3: an operator met with fewer than two values on the operand stack ends
\* the call with IndexError (the code's insufficient-operands error), and a
\* call that returns a number met no such operator.
C3_InsufficientOperands ==
    epc = "done" =>
        /\ eret.kind = "return" =>
               \A p \in 1..Len(tokens) :
                   tokens[p] \in OpTokens => Depth(tokens, p - 1) >= 2
        /\ (/\ i <= Len(tokens)
            /\ tokens[i] \in OpTokens
            /\ Depth(tokens, i - 1) < 2) => eret = Raise("IndexError")

\* the operator of "1 +" was met with one value on the stack
C3_Witness ==
    /\ epc = "done"
    /\ i <= Len(tokens) /\ tokens[i] \in OpTokens
    /\ Depth(tokens, i - 1) = 1
    /\ eret = Raise("IndexError")

\* C4: a "/" met with two operands of which the one pushed last is zero ends
\* the call with ZeroDivisionError: nothing is pushed, the loop stops and no
\* number is returned.
C4_DivisionByZero ==
    [][(/\ epc = "loop" /\ i <= Len(tokens)
        /\ tokens[i] = "/"
        /\ Len(pila) >= 2
        /\ Top(pila) = Zero)
       => (/\ epc' = "done"
           /\ eret' = Raise("ZeroDivisionError")
           /\ Len(pila') = Len(pila) - 2)]_vars

\* "1 0 /" ended with ZeroDivisionError
C4_Witness ==
    /\ epc = "done"
    /\ i >= 3 /\ i <= Len(tokens) /\ tokens[i] = "/"
    /\ tokens[i - 1] = "0"
    /\ eret = Raise("ZeroDivisionError")

\* C11 as stated: an input with a token that is neither a number, an
\* operator nor a parenthesis ends with the malformed-token error (the
\* ValueError of float) naming the text of the first such token and its
\* position, whatever else the input holds, and returns no number.
C11_MalformedTokenNamed ==
    (epc = "done" /\ \E p \in 1..Len(tokens) : tokens[p] \in JunkTokens) =>
        LET p == CHOOSE q \in 1..Len(tokens) :
                     /\ tokens[q] \in JunkTokens
                     /\ \A r \in 1..(q - 1) : tokens[r] \notin JunkTokens
        IN  /\ eret.kind = "raise"
            /\ eret.exc = "ValueError"
            /\ eret.args = <<tokens[p], p>>

\* C11, amended: an input with a token that is neither a number nor an
\* operator returns no number; when the loop reaches such a token the call
\* ends with ValueError naming the text of the token and nothing else, and
\* an error raised by a token before it (IndexError, ZeroDivisionError) comes
\* first.
C11_MalformedTokenValueError ==
    epc = "done" =>
        /\ (\E p \in 1..Len(tokens) : tokens[p] \notin NumTokens \cup OpTokens)
               => eret.kind = "raise"
        /\ (i <= Len(tokens) /\ tokens[i] \notin NumTokens \cup OpTokens)
               => eret = [kind |-> "raise", exc |-> "ValueError",
                          val |-> Zero, args |-> <<tokens[i]>>]
        /\ (eret.kind = "raise" /\ eret.exc = "ValueError")
               => (i <= Len(tokens) /\ tokens[i] \notin NumTokens \cup OpTokens)

\* "1 x" ended with ValueError at its second token, "x"
C11_Witness ==
    /\ epc = "done"
    /\ tokens = <<"1", "x">> /\ i = 2
    /\ eret.exc = "ValueError" /\ eret.args = <<"x">>

----------------------------------------------------------------------------
(* Reference semantics of infix expressions *)

Lo == {"+", "-"}
Hi == {"*", "/"}

\* t is an expression of the grammar  E ::= number | E op E | ( E )
RECURSIVE InfixScan(_, _, _, _)
InfixScan(t, p, depth, operand) ==
    IF p > Len(t) THEN ~operand /\ depth = 0
    ELSE IF operand
         THEN IF t[p] \in NumTokens THEN InfixScan(t, p + 1, depth, FALSE)
              ELSE IF t[p] = "(" THEN InfixScan(t, p + 1, depth + 1, TRUE)
              ELSE FALSE
         ELSE IF t[p] \in OpTokens THEN InfixScan(t, p + 1, depth, TRUE)
              ELSE IF t[p] = ")" /\ depth > 0 THEN InfixScan(t, p + 1, depth - 1, FALSE)
              ELSE FALSE

ValidInfix(t) == InfixScan(t, 1, 0, TRUE)

\* open parentheses around position p
ParenDepth(t, p) == CountUpTo(t, p - 1, "(") - CountUpTo(t, p - 1, ")")

TopLevel(t, ops) == {p \in 1..Len(t) : t[p] \in ops /\ ParenDepth(t, p) = 0}

Max(S) == CHOOSE x \in S : \A y \in S : y <= x

\* the value of a valid infix expression: split at the last + or - outside
\* parentheses, else at the last * or /, else open the parentheses
RECURSIVE InfixValue(_)
InfixValue(t) ==
    LET n == Len(t)
        add == TopLevel(t, Lo)
        mul == TopLevel(t, Hi)
        split(p) == RefAplica(t[p], InfixValue(SubSeq(t, 1, p - 1)),
                                    InfixValue(SubSeq(t, p + 1, n)))
    IN  IF add # {} THEN split(Max(add))
        ELSE IF mul # {} THEN split(Max(mul))
        ELSE IF t[1] = "(" THEN InfixValue(SubSeq(t, 2, n - 1))
        ELSE Return(Float(t[1]))

\* some prefix of t closes more parentheses than it opens
UnmatchedClose(t) ==
    \E p \in 1..Len(t) : CountUpTo(t, p, ")") > CountUpTo(t, p, "(")

FirstUnmatchedClose(t) ==
    CHOOSE p \in 1..Len(t) :
        /\ CountUpTo(t, p, ")") > CountUpTo(t, p, "(")
        /\ \A q \in 1..(p - 1) : CountUpTo(t, q, ")") <= CountUpTo(t, q, "(")

\* no unmatched ')' and more '(' than ')'
UnclosedOpen(t) ==
    /\ ~UnmatchedClose(t)
    /\ CountUpTo(t, Len(t), "(") > CountUpTo(t, Len(t), ")")

IsNum(t, p) == p <= Len(t) /\ t[p] \in NumTokens
IsOp(t, p) == p <= Len(t) /\ t[p] \in OpTokens

----------------------------------------------------------------------------
(* Claims about infijaAPostfija and the pipeline *)

\* C5: for every valid infix expression the conversion returns a postfix
\* string, and evaluating that string ends with the value of the infix
\* expression under the usual precedence, left associativity and grouping
\* (ZeroDivisionError when the expression divides by zero).
C5_PipelineValue ==
    (cpc = "done" /\ ValidInfix(ctokens)) =>
        /\ cret.kind = "return"
        /\ epc = "done" => eret = InfixValue(ctokens)

\* "( 1 + 1 ) * 0" evaluated to 0 and "1 / ( 1 + 1 )" to 1/2
C5_Witness ==
    /\ cpc = "done" /\ epc = "done"
    /\ \/ ctokens = <<"(", "1", "+", "1", ")", "*", "0">> /\ eret = Return(<<0, 1>>)
       \/ ctokens = <<"1", "/", "(", "1", "+", "1", ")">> /\ eret = Return(<<1, 2>>)

\* C6: "x lo y hi z" with lo one of + - and hi one of * / converts to
\* "x y z hi lo": the operator of higher precedence is emitted first.
C6_Precedence ==
    (/\ cpc = "done"
     /\ Len(ctokens) = 5
     /\ IsNum(ctokens, 1) /\ IsNum(ctokens, 3) /\ IsNum(ctokens, 5)
     /\ ctokens[2] \in Lo /\ ctokens[4] \in Hi)
    => cret = CReturn(Unir(<<ctokens[1], ctokens[3], ctokens[5],
                             ctokens[4], ctokens[2]>>))

\* "1 + 1 * 0" was converted to "1 1 0 * +"
C6_Witness ==
    /\ cpc = "done"
    /\ ctokens = <<"1", "+", "1", "*", "0">>
    /\ cret = CReturn(<<"1", " ", "1", " ", "0", " ", "*", " ", "+">>)

\* C7: an incoming operator pops the operators of equal or higher precedence
\* above the nearest '(' before it is pushed: "x op1 y op2 z" with op1 not of
\* lower precedence than op2 converts to "x y op1 z op2", with or without
\* parentheses around it, and evaluates as (x op1 y) op2 z; in
\* "x op0 ( y op1 z )" the '(' keeps op0 on the stack: "x y z op1 op0".
C7_LeftAssociativity ==
    cpc = "done" =>
        /\ (/\ Len(ctokens) = 5
            /\ IsNum(ctokens, 1) /\ IsNum(ctokens, 3) /\ IsNum(ctokens, 5)
            /\ IsOp(ctokens, 2) /\ IsOp(ctokens, 4)
            /\ ~(ctokens[2] \in Lo /\ ctokens[4] \in Hi))
           => /\ cret = CReturn(Unir(<<ctokens[1], ctokens[3], ctokens[2],
                                       ctokens[5], ctokens[4]>>))
              /\ epc = "done" =>
                    eret = RefAplica(ctokens[4],
                               RefAplica(ctokens[2], Return(Float(ctokens[1])),
                                                     Return(Float(ctokens[3]))),
                               Return(Float(ctokens[5])))
        /\ (/\ Len(ctokens) = 7
            /\ ctokens[1] = "(" /\ ctokens[7] = ")"
            /\ IsNum(ctokens, 2) /\ IsNum(ctokens, 4) /\ IsNum(ctokens, 6)
            /\ IsOp(ctokens, 3) /\ IsOp(ctokens, 5)
            /\ ~(ctokens[3] \in Lo /\ ctokens[5] \in Hi))
           => cret = CReturn(Unir(<<ctokens[2], ctokens[4], ctokens[3],
                                    ctokens[6], ctokens[5]>>))
        /\ (/\ Len(ctokens) = 7
            /\ ctokens[3] = "(" /\ ctokens[7] = ")"
            /\ IsNum(ctokens, 1) /\ IsNum(ctokens, 4) /\ IsNum(ctokens, 6)
            /\ IsOp(ctokens, 2) /\ IsOp(ctokens, 5))
           => cret = CReturn(Unir(<<ctokens[1], ctokens[4], ctokens[6],
                                    ctokens[5], ctokens[2]>>))

\* "1 - 1 - 1" was converted to "1 1 - 1 -" and evaluated to -1, not 1
C7_Witness ==
    /\ cpc = "done" /\ epc = "done"
    /\ ctokens = <<"1", "-", "1", "-", "1">>
    /\ cret = CReturn(<<"1", " ", "1", " ", "-", " ", "1", " ", "-">>)
    /\ eret = Return(<<-1, 1>>)

\* C8: a conversion whose tokens hold a ')' with no '(' left to match ends
\* at the first such ')' with IndexError (the code's unbalanced-parentheses
\* error) raised by peek on the emptied stack, and returns no output.
C8_UnmatchedClose ==
    (cpc = "done" /\ UnmatchedClose(ctokens)) =>
        /\ cret = CRaise("IndexError")
        /\ k = FirstUnmatchedClose(ctokens)
        /\ pilaOp = <<>>

\* "1 + 0 )" ended with IndexError after "+" was popped to the output
C8_Witness ==
    /\ cpc = "done"
    /\ ctokens = <<"1", "+", "0", ")">>
    /\ salida = <<"1", "0", "+">>
    /\ cret = CRaise("IndexError")

\* C9: a conversion whose tokens leave a '(' unclosed ends in an error, and
\* no '(' is ever appended to the output.
C9_UnclosedOpen ==
    /\ \A p \in 1..Len(salida) : salida[p] # "("
    /\ (cpc = "done" /\ UnclosedOpen(ctokens)) => cret.kind = "raise"

----------------------------------------------------------------------------
(* Claims about the classes Pila *)

\* C10: pop, peek and tope called on an empty stack raise, whichever class
\* the stack is of, and leave the stack empty.
C10_EmptyPopPeekFails ==
    (llamada.op \in {"pop", "peek", "tope"} /\ llamada.antes = <<>>) =>
        /\ llamada.kind = "IndexError"
        /\ llamada.obj = "p14" => p14 = <<>>
        /\ llamada.obj = "p2" => p2 = <<>>

----------------------------------------------------------------------------
(* Claims about CuentaBancaria *)

\* C12: after any sequence of constructions, depositar, retirar, transferir,
\* bloquear_cuenta and activar_cuenta, successful or failing, the saldo of
\* every account is at least 0.
C12_SaldoNoNegativo ==
    \A c \in Cuentas : cuentas[c].creada => cuentas[c].saldo >= 0

\* a retirar of more than the saldo has just been refused on an account that
\* holds money
C12_Witness ==
    /\ ultima.op = "retirar" /\ ultima.exc = "SaldoInsuficienteError"
    /\ cuentas[ultima.cta].saldo = 1 /\ ultima.args = <<2>>

\* C13: a constructor called with a titular and a numero_cuenta that hold
\* more than blanks binds an account with saldo 0, active, whose historial
\* is exactly one entry of tipo APERTURA and monto 0; called with an empty
\* or blank titular or numero_cuenta it raises ValueError and binds no
\* account.
C13_CuentaNueva ==
    ultima.op = "crear" =>
        LET cu == cuentas[ultima.cta]
        IN  IF ultima.args[1] \in {"", " "} \/ ultima.args[2] \in {"", " "}
            THEN ultima.exc = "ValueError" /\ ~cu.creada
            ELSE /\ ultima.exc = ""
                 /\ cu.creada
                 /\ cu.saldo = 0
                 /\ cu.activa
                 /\ Len(cu.historial) = 1
                 /\ cu.historial[1].tipo = "APERTURA"
                 /\ cu.historial[1].monto = 0

\* CuentaBancaria(" Ana ", " 002 ") has just returned
C13_Witness ==
    /\ ultima.op = "crear" /\ ultima.exc = ""
    /\ ultima.args = <<" Ana ", " 002 ">>
    /\ cuentas[ultima.cta].creada
    /\ cuentas[ultima.cta].numero = "002"

\* C14: depositar(monto) with monto > 0 on an active account, whatever its
\* saldo, returns and leaves the saldo at the previous saldo plus monto.
C14_Depositar ==
    [][(/\ ultima'.op = "depositar"
        /\ cuentas[ultima'.cta].activa
        /\ ultima'.args[1] > 0)
       => (/\ ultima'.exc = ""
           /\ cuentas'[ultima'.cta].saldo =
                  cuentas[ultima'.cta].saldo + ultima'.args[1])]_vars

\* depositar(2) has just returned on an account that held 1
C14_Witness ==
    /\ ultima.op = "depositar" /\ ultima.exc = ""
    /\ ultima.args = <<2>>
    /\ cuentas[ultima.cta].saldo = 3

\* C15: retirar(monto) with 0 < monto <= saldo on an active account, monto
\* = saldo included, returns monto and leaves the saldo at the previous
\* saldo minus monto.
C15_Retirar ==
    [][(/\ ultima'.op = "retirar"
        /\ cuentas[ultima'.cta].activa
        /\ ultima'.args[1] > 0
        /\ ultima'.args[1] <= cuentas[ultima'.cta].saldo)
       => (/\ ultima'.exc = ""
           /\ ultima'.ret = <<ultima'.args[1]>>
           /\ cuentas'[ultima'.cta].saldo =
                  cuentas[ultima'.cta].saldo - ultima'.args[1])]_vars

\* retirar(2) has just returned 2 and left the account at 0
C15_Witness ==
    /\ ultima.op = "retirar" /\ ultima.exc = ""
    /\ ultima.args = <<2>> /\ ultima.ret = <<2>>
    /\ cuentas[ultima.cta].saldo = 0

\* C16 as stated: retirar(monto) with monto > saldo raises
\* SaldoInsuficienteError and leaves saldo and historial unchanged, whatever
\* the state of the account.
C16_SaldoInsuficiente ==
    [][(/\ ultima'.op = "retirar"
        /\ ultima'.args[1] > cuentas[ultima'.cta].saldo)
       => (/\ ultima'.exc = "SaldoInsuficienteError"
           /\ cuentas'[ultima'.cta].saldo = cuentas[ultima'.cta].saldo
           /\ cuentas'[ultima'.cta].historial =
                  cuentas[ultima'.cta].historial)]_vars

\* C16, amended: retirar(monto) with monto > saldo leaves saldo and
\* historial unchanged and raises SaldoInsuficienteError on an active
\* account, CuentaBloqueadaError on a blocked one.
C16_SaldoInsuficienteActiva ==
    [][(/\ ultima'.op = "retirar"
        /\ ultima'.args[1] > cuentas[ultima'.cta].saldo)
       => (/\ ultima'.exc = IF cuentas[ultima'.cta].activa
                            THEN "SaldoInsuficienteError"
                            ELSE "CuentaBloqueadaError"
           /\ ultima'.ret = <<>>
           /\ cuentas'[ultima'.cta].saldo = cuentas[ultima'.cta].saldo
           /\ cuentas'[ultima'.cta].historial =
                  cuentas[ultima'.cta].historial)]_vars

\* retirar(2) has just been refused on an active account that holds 1 after
\* a deposit
C16_Witness ==
    /\ ultima.op = "retirar" /\ ultima.exc = "SaldoInsuficienteError"
    /\ ultima.args = <<2>>
    /\ cuentas[ultima.cta].activa
    /\ cuentas[ultima.cta].saldo = 1
    /\ Len(cuentas[ultima.cta].historial) = 2

\* C17: a transferir(destino, m) that returns leaves the two saldos where
\* origen.retirar(m) followed by destino.depositar(m) leaves them: the
\* origin m lower, the destination m higher, both calls being ones that
\* return.
C17_TransferirRetiroDeposito ==
    [][(ultima'.op = "transferir" /\ ultima'.exc = "")
       => LET o == ultima'.cta
              d == ultima'.args[1]
              m == ultima'.args[2]
          IN  /\ d \in Cuentas /\ d # o
              /\ RetirarDe(cuentas[o], m).exc = ""
              /\ DepositarEn(cuentas[d], m).exc = ""
              /\ cuentas'[o].saldo = RetirarDe(cuentas[o], m).cu.saldo
              /\ cuentas'[d].saldo = DepositarEn(cuentas[d], m).cu.saldo
              /\ cuentas'[o].saldo = cuentas[o].saldo - m
              /\ cuentas'[d].saldo = cuentas[d].saldo + m]_vars

\* transferir(destino, 1) has just returned: the origin held 2, the
\* destination nothing
C17_Witness ==
    /\ ultima.op = "transferir" /\ ultima.exc = ""
    /\ ultima.args[2] = 1
    /\ cuentas[ultima.cta].saldo = 1
    /\ cuentas[ultima.args[1]].saldo = 1

\* the saldos of all accounts together
Total(cs) == Suma([c \in Cuentas |-> cs[c].saldo], Cuentas)

\* C18: a call of transferir, returning or raising, leaves the sum of the
\* saldos of all accounts as it was.
C18_ConservacionDelDinero ==
    [][ultima'.op = "transferir" => Total(cuentas') = Total(cuentas)]_vars

\* C19: depositar(monto) and retirar(monto) with monto <= 0 on an active
\* account raise MontoInvalidoError and leave saldo and historial unchanged.
C19_MontoInvalido ==
    [][(/\ ultima'.op \in {"depositar", "retirar"}
        /\ cuentas[ultima'.cta].activa
        /\ ultima'.args[1] <= 0)
       => (/\ ultima'.exc = "MontoInvalidoError"
           /\ ultima'.ret = <<>>
           /\ cuentas'[ultima'.cta].saldo = cuentas[ultima'.cta].saldo
           /\ cuentas'[ultima'.cta].historial =
                  cuentas[ultima'.cta].historial)]_vars

\* depositar(0) has just been refused on an active account
C19_Witness ==
    /\ ultima.op = "depositar" /\ ultima.exc = "MontoInvalidoError"
    /\ ultima.args = <<0>>
    /\ cuentas[ultima.cta].activa

\* C20: an account is blocked from a bloquear_cuenta to the next
\* activar_cuenta and at no other time; while it is blocked every depositar
\* and retirar raises CuentaBloqueadaError and leaves saldo and historial
\* unchanged; activar_cuenta changes nothing else of the account, and on the
\* active account a depositar of a positive amount and a retirar of a
\* positive amount within the saldo return again.
C20_CuentaBloqueada ==
    [][/\ (/\ ultima'.op \in {"depositar", "retirar"}
           /\ ~cuentas[ultima'.cta].activa)
          => (/\ ultima'.exc = "CuentaBloqueadaError"
              /\ cuentas'[ultima'.cta].saldo = cuentas[ultima'.cta].saldo
              /\ cuentas'[ultima'.cta].historial =
                     cuentas[ultima'.cta].historial)
       /\ (/\ ultima'.op \in {"depositar", "retirar"}
           /\ cuentas[ultima'.cta].activa
           /\ ultima'.args[1] > 0
           /\ ultima'.op = "retirar" =>
                  ultima'.args[1] <= cuentas[ultima'.cta].saldo)
          => ultima'.exc = ""
       /\ \A c \in Cuentas :
              cuentas[c].creada =>
                  cuentas'[c].activa =
                      IF ultima'.cta = c /\ ultima'.op = "bloquear_cuenta"
                      THEN FALSE
                      ELSE IF ultima'.cta = c /\ ultima'.op = "activar_cuenta"
                      THEN TRUE
                      ELSE cuentas[c].activa
       /\ ultima'.op = "activar_cuenta" =>
              cuentas' = [cuentas EXCEPT ![ultima'.cta].activa = TRUE]]_vars

\* retirar(1) has just been refused on a blocked account that holds 2
C20_Witness ==
    /\ ultima.op = "retirar" /\ ultima.exc = "CuentaBloqueadaError"
    /\ ultima.args = <<1>>
    /\ ~cuentas[ultima.cta].activa
    /\ cuentas[ultima.cta].saldo = 2

\* C21: the historial of an account starts with its APERTURA entry and no
\* step removes or changes an entry of it; a depositar or retirar that
\* returns appends exactly one entry to its account, and a call that raises
\* appends none to any account.
C21_HistorialLength ==
    [][\A c \in Cuentas :
           cuentas[c].creada =>
               LET antes == cuentas[c].historial
                   despues == cuentas'[c].historial
               IN  /\ antes[1].tipo = "APERTURA"
                   /\ Len(despues) >= Len(antes)
                   /\ SubSeq(despues, 1, Len(antes)) = antes
                   /\ ultima'.exc # "" => despues = antes
                   /\ (/\ ultima'.exc = ""
                       /\ ultima'.op \in {"depositar", "retirar"})
                      => Len(despues) =
                             Len(antes) + (IF ultima'.cta = c THEN 1 ELSE 0)]_vars

\* C25: a transferir that raises, whatever the error, leaves the saldo and
\* the historial of the origin and of the destination as they were before
\* the call.
C25_TransferirAtomica ==
    [][(ultima'.op = "transferir" /\ ultima'.exc # "")
       => \A c \in Cuentas :
              /\ cuentas'[c].saldo = cuentas[c].saldo
              /\ cuentas'[c].historial = cuentas[c].historial]_vars

----------------------------------------------------------------------------
(* Claims about PilaMinimo *)

\* the least element of a sequence that is not empty
Minimo(s) == CHOOSE x \in {s[q] : q \in 1..Len(s)} :
                 \A q \in 1..Len(s) : x <= s[q]

\* C22: after any sequence of push and pop, get_min called on a PilaMinimo
\* that is not empty returns the least of the elements on it, and _minimos
\* ends with that element; get_min and pop called on an empty PilaMinimo
\* raise IndexError and leave it empty.
C22_GetMin ==
    /\ elementos # <<>> => (minimos # <<>> /\ Top(minimos) = Minimo(elementos))
    /\ llamadaMin.op = "get_min" =>
           /\ elementos = llamadaMin.antes
           /\ IF llamadaMin.antes = <<>>
              THEN llamadaMin.exc = "IndexError"
              ELSE /\ llamadaMin.exc = ""
                   /\ llamadaMin.ret = <<Minimo(llamadaMin.antes)>>
    /\ (llamadaMin.op = "pop" /\ llamadaMin.antes = <<>>) =>
           (llamadaMin.exc = "IndexError" /\ elementos = <<>>)
    /\ (llamadaMin.op = "pop" /\ llamadaMin.antes # <<>>) =>
           /\ llamadaMin.exc = ""
           /\ llamadaMin.ret = <<Top(llamadaMin.antes)>>
           /\ elementos = Pop(llamadaMin.antes)

\* pop has just returned the minimum 1 of <<2, 1, 1>>, and the 1 left on
\* the PilaMinimo is still its minimum
C22_Witness ==
    /\ llamadaMin.op = "pop" /\ llamadaMin.ret = <<1>>
    /\ llamadaMin.antes = <<2, 1, 1>>
    /\ elementos = <<2, 1>> /\ minimos = <<2, 1>>

----------------------------------------------------------------------------
(* Claims about validar_parentesis *)

\* every prefix has at least as many "(" as ")" and the totals are equal
Balanceada(s) ==
    /\ \A q \in 0..Len(s) : CountUpTo(s, q, "(") >= CountUpTo(s, q, ")")
    /\ CountUpTo(s, Len(s), "(") = CountUpTo(s, Len(s), ")")

\* C23: validar_parentesis returns True when every prefix of the argument
\* has at least as many "(" as ")" and the whole of it as many, and False
\* otherwise; the other characters do not count.
C23_ValidarParentesis ==
    vret # <<>> => vret = <<Balanceada(vexpresion)>>

\* "(()())" returned True
C23_Witness ==
    /\ vexpresion = <<"(", "(", ")", "(", ")", ")">>
    /\ vret = <<TRUE>>

----------------------------------------------------------------------------
(* Claims about the LIFO laws of the classes Pila *)

\* the elements of the stack a call was made on
PilaDe(obj, a, b) == IF obj = "p14" THEN a ELSE b

\* C24: on either class, from every stack s: push(x) leaves s with x on top,
\* one element more; the peek (tope) that follows returns x; the pop that
\* follows returns x and leaves s again, one element less; peek (tope),
\* is_empty (esVacia) and size leave the stack as it was and size returns
\* the number of elements.
C24_LeyesLIFO ==
    [][LET o == llamada'.obj
           s == PilaDe(o, p14, p2)
           t == PilaDe(o, p14', p2')
       IN  /\ llamada'.op = "push" =>
                  /\ Len(t) = Len(s) + 1
                  /\ Top(t) \in Elementos
                  /\ t = Append(s, Top(t))
           /\ (/\ llamada.op = "push" /\ llamada.obj = o
               /\ llamada'.op \in {"peek", "tope"})
              => (llamada'.kind = "return" /\ llamada'.val = Top(s))
           /\ (/\ llamada.op = "push" /\ llamada.obj = o
               /\ llamada'.op = "pop")
              => (/\ llamada'.kind = "return"
                  /\ llamada'.val = Top(s)
                  /\ Len(t) = Len(s) - 1
                  /\ t = llamada.antes)
           /\ llamada'.op \in {"peek", "tope", "is_empty", "esVacia", "size"}
              => (p14' = p14 /\ p2' = p2)
           /\ llamada'.op = "size" => llamada'.num = Len(s)
           /\ llamada'.op \in {"is_empty", "esVacia"}
              => llamada'.bool = (Len(s) = 0)]_vars

\* a pop of the Pila of Ejercicio 14 has just returned the "b" pushed on
\* <<"a", "a">>
C24_Witness ==
    /\ llamada.obj = "p14" /\ llamada.op = "pop"
    /\ llamada.antes = <<"a", "a", "b">> /\ llamada.val = "b"
    /\ p14 = <<"a", "a">>

----------------------------------------------------------------------------
(* Claims about the steps of infijaAPostfija *)

\* C26: at every step of the conversion of a sequence of numbers, operators
\* and parentheses the operator Pila holds operators and "(" only, never a
\* number or a ")", and salida changes only by one token being appended to
\* it.
C26_EstadoConversion ==
    [][/\ \A q \in 1..Len(pilaOp') : pilaOp'[q] \in OpTokens \cup {"("}
       /\ \/ salida' = salida
          \/ /\ Len(salida') = Len(salida) + 1
             /\ SubSeq(salida', 1, Len(salida)) = salida]_vars

\* in the conversion of "1 * ( 0 + 1 )" the Pila holds "*", "(", "+" and
\* salida holds "1", "0"
C26_Witness ==
    /\ cpc = "para"
    /\ pilaOp = <<"*", "(", "+">>
    /\ salida = <<"1", "0">>

\* the tokens of s that are in S, in the order they have in s
Solo(s, S) == SelectSeq(s, LAMBDA x : x \in S)

\* C27: for every sequence of numbers, operators and parentheses whose
\* parentheses are balanced the conversion returns a string whose tokens
\* are: the numbers of the input in the order they have there, every
\* operator as many times as the input holds it, and no parenthesis.
C27_ContenidoSalida ==
    (cpc = "done" /\ Balanceada(ctokens)) =>
        /\ cret.kind = "return"
        /\ LET out == Split(cret.val)
           IN  /\ Solo(out, NumTokens) = Solo(ctokens, NumTokens)
               /\ \A o \in OpTokens :
                      Len(Solo(out, {o})) = Len(Solo(ctokens, {o}))
               /\ Solo(out, ParenTokens) = <<>>
               /\ Len(out) = Len(ctokens) - Len(Solo(ctokens, ParenTokens))

\* "( 1 + 0 ) * 1" returned "1 0 + 1 *"
C27_Witness ==
    /\ cpc = "done"
    /\ ctokens = <<"(", "1", "+", "0", ")", "*", "1">>
    /\ cret = CReturn(<<"1", " ", "0", " ", "+", " ", "1", " ", "*">>)

\* C28: the conversion ends on every input, balanced or not, on either
\* class Pila: each token taken so far has been pushed at most once and
\* popped at most once, so that salida and the Pila together never hold
\* more than the tokens taken so far and the loops of ')' and of the final
\* drain make at most one pass per token, a ')' met with the empty Pila
\* included.
C28_Terminacion ==
    cpc = "para" => Len(salida) + Len(pilaOp) <= k - 1

----------------------------------------------------------------------------
(* Claims about the outcome of the pipeline *)

\* the conversion raised, or the evaluation of its result ended
Terminal ==
    \/ cpc = "done" /\ cret.kind = "raise"
    \/ epc = "done"

\* C29: a run of the pipeline goes on until it has one outcome, a number or
\* an error, and keeps it: an error of the conversion ends the run without
\* an evaluation; an error of the evaluation ends it at the token that
\* raised, no later token is taken and no number is returned; a call that
\* has not ended has no outcome and can take a step.
C29_UnSoloResultado ==
    /\ [](Terminal \/ ENABLED PipelineNext)
    /\ [][/\ Terminal => UNCHANGED <<cvars, evars>>
          /\ (cpc' = "done") <=> (cret'.kind \in {"return", "raise"})
          /\ (epc' = "done") <=> (eret'.kind \in {"return", "raise"})
          /\ cret'.kind \in {"running", "raise"} => epc' = "idle"
          /\ (epc' = "done" /\ eret'.kind = "raise" /\ tokens' # <<>>)
             => i' <= Len(tokens')]_vars

\* "1 / 0 + 1" was converted to "1 0 / 1 +", whose evaluation ended with
\* ZeroDivisionError at its third token
C29_Witness ==
    /\ cret = CReturn(<<"1", " ", "0", " ", "/", " ", "1", " ", "+">>)
    /\ epc = "done" /\ eret = Raise("ZeroDivisionError")
    /\ i = 3 /\ Len(tokens) = 5

----------------------------------------------------------------------------
(* Two calls of evaluar_postfija run by two threads.  pila, tokens and      *)
(* operadores are locals of the call and the function reads no global, so   *)
(* each call has a frame of its own; the variables of the evaluator hold    *)
(* the frame of the running thread and otro the frame of the other one.     *)
(* The interpreter may switch threads between any two steps.                *)

\* the tokens of the expressions of the first call
DosTokens == {"0", "1", "/", "x"}

\* the expressions of the second call: one for each way a call ends
OtrasExpresiones ==
    {<<"1", " ", "1", " ", "/">>, <<"1", " ", "0", " ", "/">>,
     <<"1", " ", "/">>, <<"1", " ", "x">>, <<>>}

\* the frame in the variables of the evaluator
MarcoActual == Marco(expresion, tokens, i, pila, epc, eret)

\* a stack that is one module-level list, the same for both calls
CambiaPilaComun ==
    /\ otro.epc # "done"
    /\ otro' = MarcoActual
    /\ expresion' = otro.expresion
    /\ tokens' = otro.tokens
    /\ i' = otro.i
    /\ pila' = pila
    /\ epc' = otro.epc
    /\ eret' = otro.eret
    /\ hilo' = 3 - hilo
    /\ UNCHANGED noDos

\* a thread switch: the running call is suspended with its locals and the
\* other call, which has not ended, goes on with its own
Cambia ==
    /\ otro.epc # "done"
    /\ otro' = MarcoActual
    /\ expresion' = otro.expresion
    /\ tokens' = otro.tokens
    /\ i' = otro.i
    /\ pila' = otro.pila
    /\ epc' = otro.epc
    /\ eret' = otro.eret
    /\ hilo' = 3 - hilo
    /\ UNCHANGED noDos

DosNext == EvalNext \/ Cambia

DosInit ==
    /\ expresion \in {Unir(t) : t \in SeqsUpTo(DosTokens, MaxDosLen)}
    /\ tokens = <<>> /\ i = 1 /\ pila = <<>>
    /\ epc = "call" /\ eret = Running
    /\ \E e \in OtrasExpresiones : otro = Marco(e, <<>>, 1, <<>>, "call", Running)
    /\ hilo = 1
    /\ infija = <<>> /\ ctokens = <<>> /\ k = 1 /\ salida = <<>>
    /\ pilaOp = <<>> /\ cpc = "idle" /\ cret = CRunning
    /\ p14 = <<>> /\ p2 = <<>> /\ llamada = NoCall
    /\ cuentas = SinCuentas /\ ultima = NoLlamada
    /\ elementos = <<>> /\ minimos = <<>> /\ llamadaMin = NoLlamadaMin
    /\ vexpresion = <<>> /\ vi = 1 /\ vpila = <<>> /\ vret = <<TRUE>>

SpecDos == DosInit /\ [][DosNext]_vars

\* the for loop of evaluar_postfija from token j on, with the stack st
RECURSIVE Bucle(_, _, _)
Bucle(t, j, st) ==
    IF j > Len(t)
    THEN IF st = <<>> THEN Raise("IndexError") ELSE Return(Top(st))
    ELSE IF t[j] \in operadores
    THEN IF Len(st) < 2 THEN Raise("IndexError")
         ELSE IF AplicaRaises(t[j], Top(Pop(st)), Top(st))
         THEN Raise("ZeroDivisionError")
         ELSE Bucle(t, j + 1,
                    Append(Pop(Pop(st)), Aplica(t[j], Top(Pop(st)), Top(st))))
    ELSE IF FloatOk(t[j]) THEN Bucle(t, j + 1, Append(st, Float(t[j])))
    ELSE RaiseFloat(t[j])

\* how one call of evaluar_postfija run alone ends
EvaluarPostfija(e) == Bucle(Split(e), 1, <<>>)

\* C30: under any interleaving of two calls of the evaluator on separate
\* expressions, each call ends as it ends when it is run alone.
C30_SinInterferencia ==
    /\ epc = "done" => eret = EvaluarPostfija(expresion)
    /\ otro.epc = "done" => otro.eret = EvaluarPostfija(otro.expresion)

\* the call of 1 0 / ran to its ZeroDivisionError in thread 1 while the call
\* of 1 1 / was switched out in the middle of its loop, 1.0 on its stack
C30_Witness ==
    /\ hilo = 1
    /\ expresion = <<"1", " ", "0", " ", "/">>
    /\ epc = "done" /\ eret = Raise("ZeroDivisionError")
    /\ otro.expresion = <<"1", " ", "1", " ", "/">>
    /\ otro.epc = "loop" /\ otro.i = 2 /\ otro.pila = <<<<1, 1>>>>

====
